---- MODULE Spec2Model ----
(***************************************************************************)
(* Model of the retrying HTTP client of resume-parsing-service-client:     *)
(* package httpclient (options, New, patchRetryableClient, sendRequest,    *)
(* do, handleUnsuccessfulResponse, decodeResponse) and the ParseDocument   *)
(* operation of package rps that calls it.                                 *)
(***************************************************************************)
EXTENDS Integers, Sequences, FiniteSets, TLC

\* ------------------------------------------------------------------------
\* Bounds of the model
\* ------------------------------------------------------------------------
\* largest value given to WithMaxRetries
MaxRetriesBound == 2
\* longest option list given to New
MaxOptions == 3
\* longest duration given to WithRetryWaitMin and WithRetryWaitMax
MaxWait == 2
\* largest value given to the connection-limit options
MaxConns == 1

\* calls in flight at once on one client
NumCalls == 2

\* ------------------------------------------------------------------------
\* Program constants
\* ------------------------------------------------------------------------
\* http.StatusBadRequest, the threshold of handleUnsuccessfulResponse
StatusBadRequest == 400
\* http.StatusInternalServerError, the status retryIfInternalServerError retries
StatusInternalServerError == 500
\* http.StatusBadGateway, the status served in TestDefaultPolicy
StatusBadGateway == 502
\* http.StatusOK
StatusOK == 200
\* zero value of HttpError.StatusCode: no response was received
NoStatus == 0

\* ------------------------------------------------------------------------
\* Values
\* ------------------------------------------------------------------------
\* An error value is a chain of wrapped messages, outermost first, and the
\* attempt count a "giving up after N attempt(s)" message carries (0 when the
\* chain has no such message).  The nil error is the empty chain.
NilErr == [chain |-> <<>>, attempts |-> 0]

NewErr(msg) == [chain |-> <<msg>>, attempts |-> 0]

\* errors.Wrap(err, msg): msg + ": " + err
Wrap(err, msg) == [chain |-> <<msg>> \o err.chain, attempts |-> err.attempts]

IsNil(err) == err.chain = <<>>

\* innermost message of an error chain
Root(err) == err.chain[Len(err.chain)]

\* errors one network attempt can end with
TransportErrors == {NewErr("EOF"), NewErr("connection refused")}

\* the error a custom retry predicate may return of its own
PolicyErr == NewErr("policy error")

\* the errors a retryableHttpClientMock is given to return
MockErrors == {NilErr, NewErr("random error")}

\* the error a failing body read ends with
ReadErr == NewErr("read error")

\* Response bodies are token sequences; the tokens are the lexemes of the
\* JSON documents the tests serve.
EmptyBody == <<>>
KeyValueBody == <<"{", "key", ":", "value", "}">>
ErrorBody == <<"{", "error", ":", "some random error", "}">>
GarbageBody == <<"random">>

Bodies == {EmptyBody, KeyValueBody, ErrorBody, GarbageBody}

Statuses == {StatusOK, StatusBadRequest - 1, StatusBadRequest,
             StatusInternalServerError, StatusBadGateway}

\* *http.Response as one attempt hands it over: status, the bytes the body
\* stream will yield, and whether reading the stream fails before its end.
\* A possibly-nil response is a sequence of length 0 or 1.  What a failing
\* stream would have yielded is never seen, so one body stands for all of them.
Responses ==
    {r \in [status : Statuses, body : Bodies, readFails : BOOLEAN] :
        r.readFails => r.body = ErrorBody}

NilResp == <<>>

Urls == {"http://localhost/some/path"}

\* ------------------------------------------------------------------------
\* Retry predicates (retryablehttp.CheckRetry values)
\* ------------------------------------------------------------------------
\* A decision is what a predicate returns: (shouldRetry, checkErr).
Decision(retry, err) == [retry |-> retry, err |-> err]

\* faulty variant: a default policy that retries every failure, as the library's own
\* default does
RetryFailuresPolicy(resp, err) ==
    IF ~IsNil(err) THEN Decision(TRUE, NilErr)
    ELSE IF resp # NilResp /\ resp[1].status >= StatusBadRequest
         THEN Decision(TRUE, NilErr)
         ELSE Decision(FALSE, NilErr)

\* doNotRetryPolicy: return false, nil
doNotRetryPolicy(resp, err) == Decision(FALSE, NilErr)

\* retryablehttp.DefaultRetryPolicy, the predicate of a fresh
\* retryablehttp.Client: it retries transport errors and statuses >= 500
DefaultRetryPolicy(resp, err) ==
    IF ~IsNil(err) THEN Decision(TRUE, NilErr)
    ELSE IF resp # NilResp /\ resp[1].status >= StatusInternalServerError
         THEN Decision(TRUE, NewErr("unexpected HTTP status"))
         ELSE Decision(FALSE, NilErr)

\* checkRetryPolicy of TestEofRetryPolicy: retry exactly the EOF errors
eofRetryPolicy(resp, err) ==
    IF ~IsNil(err) THEN Decision(Root(err) = "EOF", err)
    ELSE Decision(FALSE, err)

\* retryIfInternalServerError of example/with-options
retryIfInternalServerError(resp, err) ==
    IF resp # NilResp /\ resp[1].status = StatusInternalServerError
    THEN Decision(TRUE, err)
    ELSE Decision(FALSE, err)

\* names of the predicates a caller can hand to WithCheckRetryPolicy; "nil" is
\* the nil function value, "custom" stands for every other predicate: its
\* decision is an input of each attempt
Policies == {"nil", "eofRetryPolicy", "retryIfInternalServerError", "custom"}

\* the decisions an arbitrary predicate can return for (resp, err)
CustomDecisions(resp, err) ==
    {Decision(r, e) : r \in BOOLEAN, e \in {NilErr, err, PolicyErr}}

\* CheckRetry(ctx, resp, err) of the installed predicate; `choice` is the
\* decision the "custom" predicate takes
CheckRetry(policy, resp, err, choice) ==
    CASE policy = "doNotRetryPolicy" -> doNotRetryPolicy(resp, err)
      [] policy = "DefaultRetryPolicy" -> DefaultRetryPolicy(resp, err)
      [] policy = "eofRetryPolicy" -> eofRetryPolicy(resp, err)
      [] policy = "retryIfInternalServerError" ->
             retryIfInternalServerError(resp, err)
      [] OTHER -> choice

\* ------------------------------------------------------------------------
\* Client construction
\* ------------------------------------------------------------------------
Loggers == {"nil", "requestDumpLogger"}

\* retryablehttp.NewClient(): the library's client before it is patched
NewRetryableClient ==
    [RetryMax |-> 4, RetryWaitMin |-> 1, RetryWaitMax |-> 30,
     CheckRetry |-> "DefaultRetryPolicy"]

\* new(client): every field at its zero value
ZeroClient ==
    [retryableHttpClient |-> NewRetryableClient,
     maxIdleConns |-> 0, maxIdleConnsPerHost |-> 0, maxConnsPerHost |-> 0,
     maxRetries |-> 0, checkRetryPolicy |-> "nil",
     retryWaitMin |-> 0, retryWaitMax |-> 0,
     requestDumpLogger |-> "nil", dumpRequestBody |-> FALSE]

WithMaxIdleConns(n, c) == [c EXCEPT !.maxIdleConns = n]
WithMaxIdleConnsPerHost(n, c) == [c EXCEPT !.maxIdleConnsPerHost = n]
\* faulty variant: the per-host limit is written to the idle limit as well
WithMaxConnsPerHostAndIdle(n, c) ==
    [c EXCEPT !.maxConnsPerHost = n, !.maxIdleConnsPerHost = n]
WithMaxConnsPerHost(n, c) == [c EXCEPT !.maxConnsPerHost = n]
WithMaxRetries(n, c) == [c EXCEPT !.maxRetries = n]
WithRetryWaitMin(n, c) == [c EXCEPT !.retryWaitMin = n]
\* faulty variant: the maximum wait is written to the minimum's field
WithRetryWaitMaxWritingMin(n, c) == [c EXCEPT !.retryWaitMin = n]
WithRetryWaitMax(n, c) == [c EXCEPT !.retryWaitMax = n]
WithCheckRetryPolicy(p, c) == [c EXCEPT !.checkRetryPolicy = p]
WithRequestDumpLogger(l, b, c) ==
    [c EXCEPT !.requestDumpLogger = l, !.dumpRequestBody = b]

\* An Option value: which With* built it and the arguments it closed over.
Option(name, n, p, l, b) == [name |-> name, n |-> n, p |-> p, l |-> l, b |-> b]

\* option(client)
ApplyOption(o, c) ==
    CASE o.name = "WithMaxIdleConns" -> WithMaxIdleConns(o.n, c)
      [] o.name = "WithMaxIdleConnsPerHost" -> WithMaxIdleConnsPerHost(o.n, c)
      [] o.name = "WithMaxConnsPerHost" -> WithMaxConnsPerHost(o.n, c)
      [] o.name = "WithMaxRetries" -> WithMaxRetries(o.n, c)
      [] o.name = "WithRetryWaitMin" -> WithRetryWaitMin(o.n, c)
      [] o.name = "WithRetryWaitMax" -> WithRetryWaitMax(o.n, c)
      [] o.name = "WithCheckRetryPolicy" -> WithCheckRetryPolicy(o.p, c)
      [] o.name = "WithRequestDumpLogger" -> WithRequestDumpLogger(o.l, o.b, c)

RECURSIVE ApplyOptions(_, _)
ApplyOptions(options, c) ==
    IF options = <<>> THEN c
    ELSE ApplyOptions(Tail(options), ApplyOption(Head(options), c))

\* newClient(options)
newClient(options) == ApplyOptions(options, ZeroClient)

\* faulty variant: the custom predicate is never installed
PatchIgnoringCustomPolicy(c) ==
    [c EXCEPT !.retryableHttpClient =
        [RetryMax |-> c.maxRetries, RetryWaitMin |-> c.retryWaitMin,
         RetryWaitMax |-> c.retryWaitMax, CheckRetry |-> "doNotRetryPolicy"]]

\* faulty variant: SetRetryMax is not called, the library's RetryMax stays
PatchWithoutRetryMax(c) ==
    [c EXCEPT !.retryableHttpClient =
        [RetryMax |-> c.retryableHttpClient.RetryMax,
         RetryWaitMin |-> c.retryWaitMin, RetryWaitMax |-> c.retryWaitMax,
         CheckRetry |-> IF c.checkRetryPolicy # "nil" THEN c.checkRetryPolicy
                        ELSE "doNotRetryPolicy"]]

\* faulty variant: the configured predicate is installed whether or not it is
\* nil
PatchInstallingNilPolicy(c) ==
    [c EXCEPT !.retryableHttpClient =
        [RetryMax |-> c.maxRetries, RetryWaitMin |-> c.retryWaitMin,
         RetryWaitMax |-> c.retryWaitMax, CheckRetry |-> c.checkRetryPolicy]]

\* patchRetryableClient(c)
patchRetryableClient(c) ==
    [c EXCEPT !.retryableHttpClient =
        [RetryMax |-> c.maxRetries, RetryWaitMin |-> c.retryWaitMin,
         RetryWaitMax |-> c.retryWaitMax,
         CheckRetry |-> IF c.checkRetryPolicy # "nil" THEN c.checkRetryPolicy
                        ELSE "doNotRetryPolicy"]]

\* New(options...)
New(options) ==
    patchRetryableClient(
        [newClient(options) EXCEPT !.retryableHttpClient = NewRetryableClient])

\* the http.Transport retryablehttp.NewClient() creates (cleanhttp's pooled
\* transport): 100 idle connections, GOMAXPROCS + 1 idle connections per
\* host (2 on one processor), and no limit (0) on connections per host
DefaultPooledTransport ==
    [MaxIdleConns |-> 100, MaxIdleConnsPerHost |-> 2, MaxConnsPerHost |-> 0]

\* the transport the requests of c go through: the one of the library
\* client New wraps.  The retryableHttpClient interface has the four
\* setters patchRetryableClient calls and Do; none of them reaches the
\* transport, and nothing reads c.maxIdleConns, c.maxIdleConnsPerHost or
\* c.maxConnsPerHost.
TransportOf(c) == DefaultPooledTransport

\* the options the calls below are sensitive to
CallOptions ==
    {Option("WithMaxRetries", n, "nil", "nil", FALSE) : n \in 0..MaxRetriesBound}
    \cup {Option("WithCheckRetryPolicy", 0, p, "nil", FALSE) : p \in Policies}
    \cup {Option("WithRequestDumpLogger", 0, "nil", l, b) :
             l \in Loggers, b \in BOOLEAN}

OptionLists(opts) == UNION {[1..k -> opts] : k \in 0..MaxOptions}

OptionNames ==
    {"WithMaxIdleConns", "WithMaxIdleConnsPerHost", "WithMaxConnsPerHost",
     "WithMaxRetries", "WithRetryWaitMin", "WithRetryWaitMax",
     "WithCheckRetryPolicy", "WithRequestDumpLogger"}

\* every option, with the arguments construction is traced for: the zero
\* value and the largest for the counts, every duration for the waits
AllOptions ==
    {Option(k, n, "nil", "nil", FALSE) :
        k \in {"WithMaxIdleConns", "WithMaxIdleConnsPerHost",
               "WithMaxConnsPerHost"}, n \in {0, MaxConns}}
    \cup {Option("WithMaxRetries", n, "nil", "nil", FALSE) :
             n \in {0, MaxRetriesBound}}
    \cup {Option(k, d, "nil", "nil", FALSE) :
             k \in {"WithRetryWaitMin", "WithRetryWaitMax"}, d \in 0..MaxWait}
    \cup {Option("WithCheckRetryPolicy", 0, p, "nil", FALSE) :
             p \in {"nil", "custom"}}
    \cup {Option("WithRequestDumpLogger", 0, "nil", l, b) :
             l \in Loggers, b \in BOOLEAN}

\* ------------------------------------------------------------------------
\* Package rps: the options of the resume parsing service client
\* ------------------------------------------------------------------------
\* new(resumeParsingServiceClient): every field at its zero value
ZeroRps ==
    [rioParseToken |-> "", rioParseBaseUrl |-> "", checkRetryPolicy |-> "nil",
     maxIdleConns |-> 0, maxIdleConnsPerHost |-> 0, maxConnsPerHost |-> 0,
     maxRetries |-> 0, retryWaitMin |-> 0, retryWaitMax |-> 0,
     requestDumpLogger |-> "nil", dumpRequestBody |-> FALSE,
     httpClient |-> <<>>]

rpsWithMaxIdleConns(n, c) == [c EXCEPT !.maxIdleConns = n]
rpsWithMaxIdleConnsPerHost(n, c) == [c EXCEPT !.maxIdleConnsPerHost = n]
rpsWithMaxConnsPerHost(n, c) == [c EXCEPT !.maxConnsPerHost = n]
rpsWithMaxRetries(n, c) == [c EXCEPT !.maxRetries = n]
rpsWithRetryWaitMin(d, c) == [c EXCEPT !.retryWaitMin = d]
rpsWithRetryWaitMax(d, c) == [c EXCEPT !.retryWaitMax = d]
rpsWithCheckRetryPolicy(p, c) == [c EXCEPT !.checkRetryPolicy = p]
rpsWithRequestDumpLogger(l, b, c) ==
    [c EXCEPT !.requestDumpLogger = l, !.dumpRequestBody = b]

\* option(client) in newResumeParsingServiceClient
rpsApplyOption(o, c) ==
    CASE o.name = "WithMaxIdleConns" -> rpsWithMaxIdleConns(o.n, c)
      [] o.name = "WithMaxIdleConnsPerHost" ->
             rpsWithMaxIdleConnsPerHost(o.n, c)
      [] o.name = "WithMaxConnsPerHost" -> rpsWithMaxConnsPerHost(o.n, c)
      [] o.name = "WithMaxRetries" -> rpsWithMaxRetries(o.n, c)
      [] o.name = "WithRetryWaitMin" -> rpsWithRetryWaitMin(o.n, c)
      [] o.name = "WithRetryWaitMax" -> rpsWithRetryWaitMax(o.n, c)
      [] o.name = "WithCheckRetryPolicy" -> rpsWithCheckRetryPolicy(o.p, c)
      [] o.name = "WithRequestDumpLogger" ->
             rpsWithRequestDumpLogger(o.l, o.b, c)

\* faulty variant: the two waits are passed on in each other's place
HttpClientOptionsSwappingWaits(c) ==
    <<Option("WithMaxIdleConns", c.maxIdleConns, "nil", "nil", FALSE),
      Option("WithMaxIdleConnsPerHost", c.maxIdleConnsPerHost, "nil", "nil",
             FALSE),
      Option("WithMaxConnsPerHost", c.maxConnsPerHost, "nil", "nil", FALSE),
      Option("WithMaxRetries", c.maxRetries, "nil", "nil", FALSE),
      Option("WithRetryWaitMin", c.retryWaitMax, "nil", "nil", FALSE),
      Option("WithRetryWaitMax", c.retryWaitMin, "nil", "nil", FALSE),
      Option("WithCheckRetryPolicy", 0, c.checkRetryPolicy, "nil", FALSE),
      Option("WithRequestDumpLogger", 0, "nil", c.requestDumpLogger,
             c.dumpRequestBody)>>

\* the options NewResumeParsingServiceClient hands to newHttpClient
HttpClientOptions(c) ==
    <<Option("WithMaxIdleConns", c.maxIdleConns, "nil", "nil", FALSE),
      Option("WithMaxIdleConnsPerHost", c.maxIdleConnsPerHost, "nil", "nil",
             FALSE),
      Option("WithMaxConnsPerHost", c.maxConnsPerHost, "nil", "nil", FALSE),
      Option("WithMaxRetries", c.maxRetries, "nil", "nil", FALSE),
      Option("WithRetryWaitMin", c.retryWaitMin, "nil", "nil", FALSE),
      Option("WithRetryWaitMax", c.retryWaitMax, "nil", "nil", FALSE),
      Option("WithCheckRetryPolicy", 0, c.checkRetryPolicy, "nil", FALSE),
      Option("WithRequestDumpLogger", 0, "nil", c.requestDumpLogger,
             c.dumpRequestBody)>>

Tokens == {"token"}
BaseUrls == {"http://localhost"}

\* ------------------------------------------------------------------------
\* Body streams
\* ------------------------------------------------------------------------
\* The state of one attempt's response body stream: whether the attempt
\* delivered a response at all, how often Close was called on its body, and
\* whether its bytes were consumed.
NoStream == [present |-> FALSE, closes |-> 0, read |-> FALSE]
OpenStream == [present |-> TRUE, closes |-> 0, read |-> FALSE]

\* resp.Body.Close()
Close(st) == [st EXCEPT !.closes = @ + 1]

\* the bytes a read of the whole stream still yields
Remaining(resp, st) == IF st.read THEN <<>> ELSE resp.body

\* faulty variant: ReadAll yields nothing
ReadNothing(resp, st) ==
    [data |-> <<>>, err |-> NilErr, stream |-> [st EXCEPT !.read = TRUE]]

\* ioReadAll(resp.Body): io.ReadAll
ioReadAll(resp, st) ==
    IF resp.readFails
    THEN [data |-> <<>>, err |-> ReadErr, stream |-> [st EXCEPT !.read = TRUE]]
    ELSE [data |-> Remaining(resp, st), err |-> NilErr,
          stream |-> [st EXCEPT !.read = TRUE]]

\* The decode target: dummyType{Key string `json:"key"`} of the tests (the
\* Resume of ParseDocument is decoded the same way, field by field).
ZeroTarget == [Key |-> ""]
Targets == {ZeroTarget, [Key |-> "old"]}

\* json.NewDecoder(r).Decode(data) on the tokens the reader yields: the first
\* JSON value of the stream is decoded into data, a member named "key" sets
\* Key, other members are skipped.
Decode(tokens, data) ==
    IF tokens = <<>> THEN [err |-> NewErr("EOF"), data |-> data]
    ELSE IF tokens[1] # "{"
    THEN [err |-> NewErr("invalid character"), data |-> data]
    ELSE IF Len(tokens) >= 2 /\ tokens[2] = "}"
    THEN [err |-> NilErr, data |-> data]
    ELSE IF Len(tokens) >= 5 /\ tokens[3] = ":" /\ tokens[5] = "}"
    THEN [err |-> NilErr,
          data |-> IF tokens[2] = "key" THEN [data EXCEPT !.Key = tokens[4]]
                   ELSE data]
    ELSE [err |-> NewErr("unexpected EOF"), data |-> data]

\* jsonDecode(resp.Body, v)
jsonDecode(resp, st, data) ==
    IF resp.readFails
    THEN [err |-> ReadErr, data |-> data, stream |-> [st EXCEPT !.read = TRUE]]
    ELSE LET d == Decode(Remaining(resp, st), data)
         IN [err |-> d.err, data |-> d.data,
             stream |-> [st EXCEPT !.read = TRUE]]

\* ------------------------------------------------------------------------
\* The structured error and the resolver
\* ------------------------------------------------------------------------
\* &HttpError{Url, StatusCode, Body, Err}; a possibly-nil error returned by
\* the client is a sequence of length 0 or 1 of these.
HttpError(url, status, body, err) ==
    [Url |-> url, StatusCode |-> status, Body |-> body, Err |-> err]

NoError == <<>>

\* faulty variant: an error that comes without a response is not reported
HandleDroppingBareError(url, resp, receivedError, st) ==
    IF resp # NilResp /\ resp[1].status >= StatusBadRequest
    THEN LET r == ioReadAll(resp[1], st)
         IN IF ~IsNil(r.err)
            THEN [err |-> <<HttpError(url, resp[1].status, <<>>,
                                      Wrap(r.err, "parsing response"))>>,
                  stream |-> Close(r.stream)]
            ELSE [err |-> <<HttpError(url, resp[1].status, r.data,
                                      receivedError)>>,
                  stream |-> Close(r.stream)]
    ELSE [err |-> NoError, stream |-> st]

\* faulty variant: the status of an unsuccessful response is not recorded
HandleWithoutStatus(url, resp, receivedError, st) ==
    IF resp # NilResp /\ resp[1].status >= StatusBadRequest
    THEN LET r == ioReadAll(resp[1], st)
         IN IF ~IsNil(r.err)
            THEN [err |-> <<HttpError(url, NoStatus, <<>>,
                                      Wrap(r.err, "parsing response"))>>,
                  stream |-> Close(r.stream)]
            ELSE [err |-> <<HttpError(url, NoStatus, r.data, receivedError)>>,
                  stream |-> Close(r.stream)]
    ELSE IF ~IsNil(receivedError)
    THEN [err |-> <<HttpError(url, NoStatus, <<>>, receivedError)>>,
          stream |-> st]
    ELSE [err |-> NoError, stream |-> st]

\* faulty variant: an error that comes without a response is returned as it was
\* received, not as an HttpError
HandleReturningRawError(url, resp, receivedError, st) ==
    IF resp # NilResp /\ resp[1].status >= StatusBadRequest
    THEN LET r == ioReadAll(resp[1], st)
         IN IF ~IsNil(r.err)
            THEN [err |-> <<HttpError(url, resp[1].status, <<>>,
                                      Wrap(r.err, "parsing response"))>>,
                  stream |-> Close(r.stream)]
            ELSE [err |-> <<HttpError(url, resp[1].status, r.data,
                                      receivedError)>>,
                  stream |-> Close(r.stream)]
    ELSE IF ~IsNil(receivedError)
    THEN [err |-> <<receivedError>>, stream |-> st]
    ELSE [err |-> NoError, stream |-> st]

\* faulty variant: the threshold is off by one, status 400 passes for a success
HandleAboveBadRequest(url, resp, receivedError, st) ==
    IF resp # NilResp /\ resp[1].status > StatusBadRequest
    THEN LET r == ioReadAll(resp[1], st)
         IN IF ~IsNil(r.err)
            THEN [err |-> <<HttpError(url, resp[1].status, <<>>,
                                      Wrap(r.err, "parsing response"))>>,
                  stream |-> Close(r.stream)]
            ELSE [err |-> <<HttpError(url, resp[1].status, r.data,
                                      receivedError)>>,
                  stream |-> Close(r.stream)]
    ELSE IF ~IsNil(receivedError)
    THEN [err |-> <<HttpError(url, NoStatus, <<>>, receivedError)>>,
          stream |-> st]
    ELSE [err |-> NoError, stream |-> st]

\* handleUnsuccessfulResponse(url, resp, receivedError); st is the state of
\* resp's body stream (NoStream when resp is nil)
handleUnsuccessfulResponse(url, resp, receivedError, st) ==
    IF resp # NilResp /\ resp[1].status >= StatusBadRequest
    THEN LET r == ioReadAll(resp[1], st)
         IN IF ~IsNil(r.err)
            THEN [err |-> <<HttpError(url, resp[1].status, <<>>,
                                      Wrap(r.err, "parsing response"))>>,
                  stream |-> Close(r.stream)]
            ELSE [err |-> <<HttpError(url, resp[1].status, r.data,
                                      receivedError)>>,
                  stream |-> Close(r.stream)]
    ELSE IF ~IsNil(receivedError)
    THEN [err |-> <<HttpError(url, NoStatus, <<>>, receivedError)>>,
          stream |-> st]
    ELSE [err |-> NoError, stream |-> st]

\* faulty variant: the body is closed before it is decoded, so the decoder reads a
\* closed body
DecodeResponseClosingFirst(url, resp, hasTarget, data, st) ==
    IF hasTarget /\ resp # NilResp
    THEN [err |-> <<HttpError(url, resp[1].status, <<>>,
                              Wrap(NewErr("read on closed response body"),
                                   "decoding response"))>>,
          data |-> data, stream |-> Close(st), decoded |-> TRUE]
    ELSE [err |-> NoError, data |-> data, stream |-> st, decoded |-> FALSE]

\* faulty variant: the decode error does not record the response's status
DecodeResponseWithoutStatus(url, resp, hasTarget, data, st) ==
    IF hasTarget /\ resp # NilResp
    THEN LET d == jsonDecode(resp[1], st, data)
         IN IF ~IsNil(d.err)
            THEN [err |-> <<HttpError(url, NoStatus, <<>>,
                                      Wrap(d.err, "decoding response"))>>,
                  data |-> d.data, stream |-> Close(d.stream), decoded |-> TRUE]
            ELSE [err |-> NoError, data |-> d.data,
                  stream |-> Close(d.stream), decoded |-> TRUE]
    ELSE [err |-> NoError, data |-> data, stream |-> st, decoded |-> FALSE]

\* decodeResponse(url, resp, v); hasTarget says v is not nil, data is *v
decodeResponse(url, resp, hasTarget, data, st) ==
    IF hasTarget /\ resp # NilResp
    THEN LET d == jsonDecode(resp[1], st, data)
         IN IF ~IsNil(d.err)
            THEN [err |-> <<HttpError(url, resp[1].status, <<>>,
                                      Wrap(d.err, "decoding response"))>>,
                  data |-> d.data, stream |-> Close(d.stream), decoded |-> TRUE]
            ELSE [err |-> NoError, data |-> d.data,
                  stream |-> Close(d.stream), decoded |-> TRUE]
    ELSE [err |-> NoError, data |-> data, stream |-> st, decoded |-> FALSE]

\* faulty variant: the body is decoded before the outcome is classified, so an
\* unsuccessful response is decoded into the target too
DoDecodingFirst(url, resp, err, hasTarget, data, st) ==
    LET d == decodeResponse(url, resp, hasTarget, data, st)
        h == handleUnsuccessfulResponse(url, resp, err, d.stream)
    IN [resp |-> resp, err |-> IF h.err # NoError THEN h.err ELSE d.err,
        data |-> d.data, stream |-> h.stream, decoded |-> d.decoded]

\* the part of client.do after retryableHttpClient.Do returned (resp, err)
do(url, resp, err, hasTarget, data, st) ==
    LET h == handleUnsuccessfulResponse(url, resp, err, st)
    IN IF h.err # NoError
       THEN [resp |-> resp, err |-> h.err, data |-> data,
             stream |-> h.stream, decoded |-> FALSE]
       ELSE LET d == decodeResponse(url, resp, hasTarget, data, h.stream)
            IN [resp |-> resp, err |-> d.err, data |-> d.data,
                stream |-> d.stream, decoded |-> d.decoded]

\* Texts are sequences of pieces; the string is their concatenation.
\* err.Error() of an error value: the messages of its chain, outermost
\* first, joined by ": "; the giving-up message names its attempt count
RECURSIVE ChainText(_, _)
ChainText(chain, n) ==
    IF chain = <<>> THEN <<>>
    ELSE LET head == IF Head(chain) = "giving up after N attempt(s)"
                     THEN <<"giving up after ", ToString(n), " attempt(s)">>
                     ELSE <<Head(chain)>>
         IN IF Len(chain) = 1 THEN head
            ELSE head \o <<": ">> \o ChainText(Tail(chain), n)

\* an error formatted with %v: "<nil>" for the nil error
CauseText(err) ==
    IF IsNil(err) THEN <<"<nil>">> ELSE ChainText(err.chain, err.attempts)

\* the status of an HttpError as its message shows it
StatusText(code) == IF code = NoStatus THEN "no status" ELSE ToString(code)

\* (*HttpError).Error()
Error(e) ==
    <<"request to ", e.Url, " failed. httpStatus: [ ", StatusText(e.StatusCode),
      " ] responseBody: [ ">> \o e.Body \o <<" ] error: [ ">>
        \o CauseText(e.Err) \o <<" ]">>

\* ------------------------------------------------------------------------
\* The request dump
\* ------------------------------------------------------------------------
\* request bodies: none, or a payload
ReqBodies == {<<>>, <<"payload">>}

\* *http.Request: `declared` says the request states its body's length
\* (ContentLength), as http.NewRequest arranges for an in-memory body
Request(url, body, declared) ==
    [url |-> url, body |-> body, declared |-> declared]

\* the requests a caller hands to SendRequest...
Requests ==
    {Request(u, b, d) : u \in Urls, b \in ReqBodies, d \in BOOLEAN}
        \ {Request(u, <<>>, TRUE) : u \in Urls}

\* dumpRequestOut(req, body): httputil.DumpRequestOut.  The dump is the
\* request line and headers, followed by the body only when `body` is set;
\* `fails` says the serialization ends with an error.
dumpRequestOut(req, body, fails) ==
    IF fails THEN [dump |-> <<>>, err |-> NewErr("random error")]
    ELSE [dump |-> <<"headers">> \o (IF body THEN req.body ELSE <<>>),
          err |-> NilErr]

\* faulty variant: the request is always dumped with its body
LogRequestDumpWithBody(c, req, fails, logged) ==
    IF c.requestDumpLogger # "nil"
    THEN LET d == dumpRequestOut(req, TRUE, fails)
         IN IF IsNil(d.err) THEN Append(logged, d.dump) ELSE logged
    ELSE logged

\* faulty variant: the logger is handed the dump whether or not serializing failed
LogRequestDumpDespiteError(c, req, fails, logged) ==
    IF c.requestDumpLogger # "nil"
    THEN Append(logged, dumpRequestOut(req, c.dumpRequestBody, fails).dump)
    ELSE logged

\* faulty variant: the logger is invoked twice with the dump
LogRequestDumpTwice(c, req, fails, logged) ==
    IF c.requestDumpLogger # "nil"
    THEN LET d == dumpRequestOut(req, c.dumpRequestBody, fails)
         IN IF IsNil(d.err) THEN Append(Append(logged, d.dump), d.dump)
            ELSE logged
    ELSE logged

\* faulty variant: the logger is invoked only when the body is to be dumped
LogRequestDumpOnlyWithBody(c, req, fails, logged) ==
    IF c.requestDumpLogger # "nil" /\ c.dumpRequestBody
    THEN LET d == dumpRequestOut(req, c.dumpRequestBody, fails)
         IN IF IsNil(d.err) THEN Append(logged, d.dump) ELSE logged
    ELSE logged

\* c.logRequestDump(req): the dumps handed to the logger, given those handed
\* over before
logRequestDump(c, req, fails, logged) ==
    IF c.requestDumpLogger # "nil"
    THEN LET d == dumpRequestOut(req, c.dumpRequestBody, fails)
         IN IF IsNil(d.err) THEN Append(logged, d.dump) ELSE logged
    ELSE logged

\* faulty variant: every send sets the retry budget of the shared client anew
SendRequestResettingRetries(c) ==
    [c EXCEPT !.maxRetries = 0, !.retryableHttpClient.RetryMax = 0]

\* the receiver c after c.sendRequest(req, v): sendRequest, logRequestDump
\* and do read fields of c and assign none
AfterSendRequest(c) == c

\* ------------------------------------------------------------------------
\* The retry loop of the wrapped retryablehttp.Client
\* ------------------------------------------------------------------------
\* what one network attempt can end with: a response, or a transport error
AttemptOutcomes ==
    {[resp |-> <<r>>, err |-> NilErr] : r \in Responses}
    \cup {[resp |-> NilResp, err |-> e] : e \in TransportErrors}

\* "giving up after N attempt(s)", wrapping err when there is one
GivingUp(n, err) ==
    [chain |-> <<"giving up after N attempt(s)">> \o err.chain, attempts |-> n]

\* the loop goes on to another attempt: the predicate said retry and
\* retries remain after `made` attempts were made before this one
Retries(rc, made, decision) == decision.retry /\ rc.RetryMax - made > 0

\* the loop ended without retrying and nothing failed: the response is
\* handed over as it is
Succeeded(outcome, decision) ==
    IsNil(outcome.err) /\ IsNil(decision.err) /\ ~decision.retry

\* the error the loop gives up with after `n` attempts
FinalErr(n, outcome, decision) ==
    GivingUp(n, IF ~IsNil(decision.err) THEN decision.err ELSE outcome.err)

\* the wait before the retry that follows attempt number attemptNum (from
\* 0): min doubled with every attempt, and max once that exceeds max
DefaultBackoff(min, max, attemptNum) ==
    LET sleep == min * 2 ^ attemptNum
    IN IF sleep > max THEN max ELSE sleep

\* the body of a response the loop is done with is read to its end and closed
drainBody(st) == IF st.present THEN Close([st EXCEPT !.read = TRUE]) ELSE st

StreamOf(outcome) == IF outcome.resp # NilResp THEN OpenStream ELSE NoStream

\* The request handed to Do is &retryablehttp.Request{Request: req}: it has
\* no function that yields the body anew, so the loop rewinds nothing and
\* every attempt is dispatched with what req.Body still yields.  An attempt
\* that got a response, or whose connection broke after the request went
\* out (EOF), has read the body to its end; a connection that was never
\* made has read none of it.
Drains(outcome) == outcome.resp # NilResp \/ Root(outcome.err) = "EOF"

\* the error of writing a request whose body yields fewer bytes than the
\* length it states
ShortBodyErr == NewErr("http: ContentLength=N with Body length 0")

\* what an attempt can end with, given the request and what its body stream
\* still yields: a request that states its length and no longer has the
\* bytes fails while it is written; any other is sent with the bytes that
\* are left
OutcomesFor(req, stream) ==
    IF req.declared /\ stream # req.body
    THEN {[resp |-> NilResp, err |-> ShortBodyErr]}
    ELSE AttemptOutcomes

\* the predicate the caller configured: the one given to WithCheckRetryPolicy,
\* and "the request will not be retried by default" when none was given
ConfiguredPolicy(c) ==
    IF c.checkRetryPolicy # "nil" THEN c.checkRetryPolicy ELSE "doNotRetryPolicy"

\* the decisions open to the predicate at one attempt: any, for the "custom"
\* predicate; the named predicates compute theirs
Choices(c, resp, err) ==
    IF "custom" \in {c.retryableHttpClient.CheckRetry, ConfiguredPolicy(c)}
    THEN CustomDecisions(resp, err)
    ELSE {Decision(FALSE, NilErr)}

\* ------------------------------------------------------------------------
\* State
\* ------------------------------------------------------------------------
VARIABLES
    client,     \* the *client built by New
    mock,       \* <<>>, or <<[Resp, Err]>>: a retryableHttpClientMock installed
    pc,         \* position of the one call in flight
    call,       \* its arguments: operation, request, decode target supplied;
                \* dumpErr: dumpRequestOut was called and returned an error
    target,     \* the value of the caller's decode target
    attempts,   \* attempts the retry loop made
    streams,    \* per attempt, the state of its response body stream
    decisions,  \* per attempt, whether the configured predicate said retry
    last,       \* the last attempt: its outcome and the predicate's error
    doRet,      \* what retryableHttpClient.Do returned: [resp, err]
    ret,        \* what sendRequest returned: [resp, err]
    dumps,      \* the dumps handed to requestDumpLogger
    decodes,    \* invocations of jsonDecode
    reqStream,  \* the bytes the request's body stream still yields
    sent,       \* per attempt, the request body bytes it was dispatched with
    waits,      \* the durations the loop waited between attempts
    pd,         \* what ParseDocument returned
    given,      \* while New is traced: per option, the arguments last given
    rps,        \* the *resumeParsingServiceClient being built
    procs,      \* per concurrent caller of the one client, its call
    runs        \* two runs of one call, with and without diagnostics

vars == <<client, mock, pc, call, target, attempts, streams, decisions, last,
          doRet, ret, dumps, decodes, reqStream, sent, waits, pd, given, rps,
          procs, runs>>

\* the variables the calls of a single caller leave alone: those of
\* construction, those of concurrent callers and those of paired runs
construction == <<given, rps, procs, runs>>

NoCall == [op |-> "none", req |-> Request("", <<>>, FALSE), hasTarget |-> FALSE,
           v0 |-> ZeroTarget, dumpErr |-> FALSE]
NoLast == [resp |-> NilResp, err |-> NilErr, checkErr |-> NilErr]
NoRet == [resp |-> NilResp, err |-> NoError]
NoDoRet == [resp |-> NilResp, err |-> NilErr]
NoPd == [resume |-> <<>>, msg |-> "", cause |-> NoError, plain |-> NilErr]

\* the concurrent callers, and a caller that has not called yet.  hist is
\* what the caller's own attempts ended with and what the predicate decided
Calls == 1..NumCalls
NoProc == [pc |-> "idle", req |-> Request("", <<>>, FALSE), hasTarget |-> FALSE,
           hist |-> <<>>, doRet |-> NoDoRet, ret |-> NoRet, data |-> ZeroTarget]

\* the two runs of one call that are compared: on the client as configured,
\* and on the same client without a dump logger.  stream is the state of
\* the request's body reader: the bytes it still yields, and whether
\* reading it ends with an error instead of the end of the body
Runs == {"logged", "plain"}
NoStreamIn == [left |-> <<>>, fails |-> FALSE]
NoRun == [pc |-> "idle", req |-> Request("", <<>>, FALSE), hasTarget |-> FALSE,
          stream |-> NoStreamIn, dumped |-> <<>>, sent |-> <<>>, attempts |-> 0,
          doRet |-> NoDoRet, ret |-> NoRet, data |-> ZeroTarget]

\* no call has been made yet
Idle ==
    /\ mock = <<>>
    /\ call = NoCall
    /\ target = ZeroTarget
    /\ attempts = 0
    /\ streams = <<>>
    /\ decisions = <<>>
    /\ last = NoLast
    /\ doRet = NoDoRet
    /\ ret = NoRet
    /\ dumps = <<>>
    /\ decodes = 0
    /\ reqStream = <<>>
    /\ sent = <<>>
    /\ waits = <<>>
    /\ pd = NoPd
    /\ rps = ZeroRps
    /\ procs = [i \in Calls |-> NoProc]
    /\ runs = [r \in Runs |-> NoRun]

\* Construction is traced option by option in SpecNew only; the other
\* specifications start from a constructed client.
NoneGiven == [k \in OptionNames |-> <<>>]

Init ==
    /\ \E options \in OptionLists(CallOptions) : client = New(options)
    /\ pc = "idle"
    /\ given = NoneGiven
    /\ Idle

\* the options that decide how long the loop waits, with those that make it
\* retry
WaitOptions ==
    {Option("WithRetryWaitMin", d, "nil", "nil", FALSE) : d \in 0..MaxWait}
    \cup {Option("WithRetryWaitMax", d, "nil", "nil", FALSE) : d \in 0..MaxWait}
    \cup {Option("WithMaxRetries", MaxRetriesBound, "nil", "nil", FALSE),
          Option("WithCheckRetryPolicy", 0, "retryIfInternalServerError",
                 "nil", FALSE)}

\* clients built with the wait options
InitWaits ==
    /\ \E options \in OptionLists(WaitOptions) : client = New(options)
    /\ pc = "idle"
    /\ given = NoneGiven
    /\ Idle

\* New or NewResumeParsingServiceClient was called and has allocated its
\* client
InitNew ==
    /\ pc \in {"new", "rpsNew"}
    /\ client = ZeroClient
    /\ given = NoneGiven
    /\ Idle

\* ------------------------------------------------------------------------
\* Actions
\* ------------------------------------------------------------------------
\* the tests replace the wrapped library client of a client built without
\* retry options by a retryableHttpClientMock whose Do returns the stored
\* (Resp, Err)
InstallMock ==
    /\ pc = "idle"
    /\ mock = <<>>
    /\ client.maxRetries = 0
    /\ client.checkRetryPolicy = "nil"
    /\ \E r \in {NilResp} \cup {<<x>> : x \in Responses}, e \in MockErrors :
          mock' = <<[Resp |-> r, Err |-> e]>>
    /\ UNCHANGED <<client, pc, call, target, attempts, streams, decisions,
                   last, doRet, ret, dumps, decodes, reqStream, sent, waits, pd,
                   construction>>

\* c.sendRequest(req, v) up to the call of retryableHttpClient.Do
sendRequest(op, req, hasTarget, dumpFails) ==
    /\ dumps' = logRequestDump(client, req, dumpFails, dumps)
    /\ call' = [op |-> op, req |-> req, hasTarget |-> hasTarget, v0 |-> target',
                dumpErr |-> client.requestDumpLogger # "nil" /\ dumpFails]
    /\ reqStream' = req.body
    /\ pc' = "do"
    /\ client' = AfterSendRequest(client)
    /\ UNCHANGED <<mock, attempts, streams, decisions, last, doRet,
                   ret, decodes, sent, waits, pd,
                   construction>>

\* c.SendRequest(req)
SendRequest ==
    /\ pc = "idle"
    /\ UNCHANGED target
    /\ \E req \in Requests, f \in BOOLEAN :
          sendRequest("SendRequest", req, FALSE, f)

\* c.SendRequestAndUnmarshallJsonResponse(req, v)
SendRequestAndUnmarshallJsonResponse ==
    /\ pc = "idle"
    /\ target' \in Targets
    /\ \E req \in Requests, f \in BOOLEAN :
          sendRequest("SendRequestAndUnmarshallJsonResponse", req, TRUE, f)

\* one iteration of the retry loop inside retryableHttpClientWrapper.Do
Attempt ==
    /\ pc = "do"
    /\ mock = <<>>
    /\ \E o \in OutcomesFor(call.req, reqStream) :
       \E choice \in Choices(client, o.resp, o.err) :
          LET rc == client.retryableHttpClient
              d == CheckRetry(rc.CheckRetry, o.resp, o.err, choice)
              n == attempts + 1
          IN /\ attempts' = n
             /\ sent' = Append(sent, reqStream)
             /\ reqStream' = IF Drains(o) THEN <<>> ELSE reqStream
             /\ decisions' = Append(decisions,
                    CheckRetry(ConfiguredPolicy(client), o.resp, o.err,
                               choice).retry)
             /\ last' = [resp |-> o.resp, err |-> o.err, checkErr |-> d.err]
             /\ IF Retries(rc, attempts, d)
                THEN /\ streams' = Append(streams, drainBody(StreamOf(o)))
                     /\ waits' = Append(waits,
                            DefaultBackoff(rc.RetryWaitMin, rc.RetryWaitMax,
                                           attempts))
                     /\ UNCHANGED <<pc, doRet>>
                ELSE IF Succeeded(o, d)
                THEN /\ streams' = Append(streams, StreamOf(o))
                     /\ doRet' = [resp |-> o.resp, err |-> NilErr]
                     /\ pc' = "resolve"
                     /\ UNCHANGED waits
                ELSE /\ streams' = Append(streams, drainBody(StreamOf(o)))
                     /\ doRet' = [resp |-> NilResp, err |-> FinalErr(n, o, d)]
                     /\ pc' = "resolve"
                     /\ UNCHANGED waits
    /\ UNCHANGED <<client, mock, call, target, ret, dumps, decodes, pd,
                   construction>>

\* retryableHttpClientMock.Do: return r.Resp, r.Err
MockDo ==
    /\ pc = "do"
    /\ mock # <<>>
    /\ attempts' = attempts + 1
    /\ streams' = Append(streams, IF mock[1].Resp # NilResp THEN OpenStream
                                  ELSE NoStream)
    /\ doRet' = [resp |-> mock[1].Resp, err |-> mock[1].Err]
    /\ last' = [resp |-> mock[1].Resp, err |-> mock[1].Err, checkErr |-> NilErr]
    /\ sent' = Append(sent, reqStream)
    /\ pc' = "resolve"
    /\ UNCHANGED <<client, mock, call, target, decisions, ret, dumps, decodes,
                   reqStream, waits, pd,
                   construction>>

\* client.do after Do returned, and the return of sendRequest
Resolve ==
    /\ pc = "resolve"
    /\ LET i == Len(streams)
           r == do(call.req.url, doRet.resp, doRet.err, call.hasTarget, target,
                   streams[i])
       IN /\ ret' = [resp |-> r.resp, err |-> r.err]
          /\ target' = r.data
          /\ streams' = [streams EXCEPT ![i] = r.stream]
          /\ decodes' = decodes + (IF r.decoded THEN 1 ELSE 0)
    /\ pc' = "returned"
    /\ UNCHANGED <<client, mock, call, attempts, decisions, last, doRet, dumps,
                   reqStream, sent, waits, pd,
                   construction>>

\* faulty variant: the resume is returned along with the error
ReturnWrappedWithResume(msg, plain, cause) ==
    [NoPd EXCEPT !.msg = msg, !.plain = plain, !.cause = cause,
                 !.resume = <<ZeroTarget>>]

\* return nil, errors.Wrap(err, msg): err is an error of ParseDocument's own
\* steps (plain) or the one SendRequestAndUnmarshallJsonResponse returned
\* (cause)
ReturnWrapped(msg, plain, cause) ==
    [NoPd EXCEPT !.msg = msg, !.plain = plain, !.cause = cause]

\* the errors the mocked jsonMarshal and newRequestWithContext return
StepErrors == {NilErr, NewErr("random error")}

\* the body ParseDocument posts: the marshalled parseDocumentRequest
ParseDocumentBody == <<"base64_data">>

\* r.ParseDocument(ctx, fileContents) up to the call of Do inside
\* SendRequestAndUnmarshallJsonResponse
ParseDocument ==
    /\ pc = "idle"
    /\ \E u \in Urls, marshalErr \in StepErrors, createErr \in StepErrors,
          f \in BOOLEAN :
          IF ~IsNil(marshalErr)
          THEN /\ pd' = ReturnWrapped("marshalling parse document request",
                                      marshalErr, NoError)
               /\ pc' = "pdReturned"
               /\ UNCHANGED <<client, mock, call, target, attempts, streams,
                              decisions, last, doRet, ret, dumps, decodes,
                              reqStream, sent, waits,
                   construction>>
          ELSE IF ~IsNil(createErr)
          THEN /\ pd' = ReturnWrapped("creating request", createErr, NoError)
               /\ pc' = "pdReturned"
               /\ UNCHANGED <<client, mock, call, target, attempts, streams,
                              decisions, last, doRet, ret, dumps, decodes,
                              reqStream, sent, waits,
                   construction>>
          ELSE /\ target' = ZeroTarget
               /\ sendRequest("ParseDocument",
                              Request(u, ParseDocumentBody, TRUE), TRUE, f)

\* ParseDocument after SendRequestAndUnmarshallJsonResponse returned
ParseDocumentReturn ==
    /\ pc = "returned"
    /\ call.op = "ParseDocument"
    /\ IF ret.err # NoError
       THEN /\ pd' = ReturnWrapped("performing request", NilErr, ret.err)
            /\ pc' = "pdReturned"
            /\ UNCHANGED streams
       ELSE IF ret.resp = NilResp
       THEN /\ pd' = [NoPd EXCEPT !.msg = "panic: nil pointer dereference"]
            /\ pc' = "panicked"
            /\ UNCHANGED streams
       ELSE /\ pd' = [NoPd EXCEPT !.resume = <<target>>]
            /\ pc' = "pdReturned"
            /\ streams' = [streams EXCEPT ![Len(streams)] = Close(@)]
    /\ UNCHANGED <<client, mock, call, target, attempts, decisions, last,
                   doRet, ret, dumps, decodes, reqStream, sent, waits,
                   construction>>

Next ==
    \/ ParseDocument
    \/ ParseDocumentReturn
    \/ SendRequest
    \/ SendRequestAndUnmarshallJsonResponse
    \/ Attempt
    \/ Resolve
    \/ InstallMock
    \/ MockDo

Spec == Init /\ [][Next]_vars

\* the same calls on clients built with the wait options
SpecWaits == InitWaits /\ [][Next]_vars

\* ------------------------------------------------------------------------
\* Construction, option by option
\* ------------------------------------------------------------------------
\* the variables of a call
calling == <<mock, call, target, attempts, streams, decisions, last, doRet,
             ret, dumps, decodes, reqStream, sent, waits, pd>>

\* newClient: option(client) for one more option of the list
ApplyNextOption ==
    /\ pc = "new"
    /\ \E o \in AllOptions :
          /\ client' = ApplyOption(o, client)
          /\ given' = [given EXCEPT ![o.name] = <<o>>]
    /\ UNCHANGED <<pc, rps, procs, runs, calling>>

\* New after newClient returned: the library's client is created and patched
FinishNew ==
    /\ pc = "new"
    /\ client' = patchRetryableClient(
                     [client EXCEPT !.retryableHttpClient = NewRetryableClient])
    /\ pc' = "idle"
    /\ UNCHANGED <<given, rps, procs, runs, calling>>

\* newResumeParsingServiceClient: option(client) for one more option
RpsApplyNextOption ==
    /\ pc = "rpsNew"
    /\ \E o \in AllOptions : rps' = rpsApplyOption(o, rps)
    /\ UNCHANGED <<pc, client, given, procs, runs, calling>>

\* NewResumeParsingServiceClient after the options were applied
FinishNewResumeParsingServiceClient ==
    /\ pc = "rpsNew"
    /\ \E token \in Tokens, url \in BaseUrls :
          /\ client' = New(HttpClientOptions(rps))
          /\ rps' = [rps EXCEPT !.rioParseToken = token,
                                !.rioParseBaseUrl = url,
                                !.httpClient = <<client'>>]
    /\ given' = [k \in OptionNames |->
                    <<HttpClientOptions(rps)[CHOOSE i \in 1..8 :
                          HttpClientOptions(rps)[i].name = k]>>]
    /\ pc' = "idle"
    /\ UNCHANGED <<procs, runs, calling>>

NextNew ==
    \/ ApplyNextOption
    \/ FinishNew
    \/ RpsApplyNextOption
    \/ FinishNewResumeParsingServiceClient

SpecNew == InitNew /\ [][NextNew]_vars

\* ------------------------------------------------------------------------
\* Concurrent calls on one client
\* ------------------------------------------------------------------------
\* Every caller runs sendRequest on the same *client from its own goroutine,
\* with its own request, decode target and response; the steps of the
\* callers interleave in any order.  What the callers share is the client
\* and the logger it holds.

\* the options of the shared client: retrying on 500, and dumping requests
ConcOptions ==
    {Option("WithMaxRetries", 1, "nil", "nil", FALSE),
     Option("WithCheckRetryPolicy", 0, "retryIfInternalServerError", "nil",
            FALSE),
     Option("WithRequestDumpLogger", 0, "nil", "requestDumpLogger", TRUE)}

\* what an attempt of a concurrent call ends with: success, a server error,
\* or a broken connection
ConcOutcomes ==
    {o \in AttemptOutcomes :
        \/ o.resp # NilResp /\ o.resp[1] \in
              {[status |-> StatusOK, body |-> KeyValueBody, readFails |-> FALSE],
               [status |-> StatusInternalServerError, body |-> ErrorBody,
                readFails |-> FALSE]}
        \/ o.resp = NilResp /\ Root(o.err) = "EOF"}

InitConc ==
    /\ \E options \in OptionLists(ConcOptions) : client = New(options)
    /\ pc = "idle"
    /\ given = NoneGiven
    /\ Idle

\* the variables of the single caller
single == <<mock, pc, call, target, attempts, streams, decisions, last, doRet,
            ret, decodes, reqStream, sent, waits, pd, given, rps, runs>>

\* caller i: c.sendRequest(req, v) up to the call of retryableHttpClient.Do
ConcSendRequest(i) ==
    /\ procs[i].pc = "idle"
    /\ \E body \in ReqBodies, u \in Urls, hasTarget \in BOOLEAN :
          LET req == Request(u, body, FALSE)
          IN /\ dumps' = logRequestDump(client, req, FALSE, dumps)
             /\ procs' = [procs EXCEPT ![i] =
                    [NoProc EXCEPT !.pc = "do", !.req = req,
                                   !.hasTarget = hasTarget]]
    /\ client' = AfterSendRequest(client)
    /\ UNCHANGED single

\* caller i: one iteration of the retry loop
ConcAttempt(i) ==
    /\ procs[i].pc = "do"
    /\ \E o \in ConcOutcomes :
          LET rc == client.retryableHttpClient
              d == CheckRetry(rc.CheckRetry, o.resp, o.err,
                              Decision(FALSE, NilErr))
              made == Len(procs[i].hist)
              hist == Append(procs[i].hist, [o |-> o, d |-> d])
          IN procs' = [procs EXCEPT ![i] =
                 IF Retries(rc, made, d)
                 THEN [@ EXCEPT !.hist = hist]
                 ELSE IF Succeeded(o, d)
                 THEN [@ EXCEPT !.hist = hist, !.pc = "resolve",
                          !.doRet = [resp |-> o.resp, err |-> NilErr]]
                 ELSE [@ EXCEPT !.hist = hist, !.pc = "resolve",
                          !.doRet = [resp |-> NilResp,
                                     err |-> FinalErr(made + 1, o, d)]]]
    /\ UNCHANGED <<client, dumps, single>>

\* caller i: client.do after Do returned, and the return of sendRequest
ConcResolve(i) ==
    /\ procs[i].pc = "resolve"
    /\ LET p == procs[i]
           r == do(p.req.url, p.doRet.resp, p.doRet.err, p.hasTarget,
                   ZeroTarget, StreamOf(p.doRet))
       IN procs' = [procs EXCEPT ![i] =
              [@ EXCEPT !.pc = "returned",
                        !.ret = [resp |-> r.resp, err |-> r.err],
                        !.data = r.data]]
    /\ UNCHANGED <<client, dumps, single>>

NextConc ==
    \E i \in Calls :
        \/ ConcSendRequest(i)
        \/ ConcAttempt(i)
        \/ ConcResolve(i)

SpecConc == InitConc /\ [][NextConc]_vars

\* ------------------------------------------------------------------------
\* Two runs of one call, with and without diagnostics
\* ------------------------------------------------------------------------
\* The same request is sent twice, once through the client as configured
\* and once through a client that differs from it in having no dump logger;
\* every attempt of the two runs ends as the network decides, alike for
\* both.

\* c without diagnostics
WithoutDiagnostics(c) ==
    [c EXCEPT !.requestDumpLogger = "nil", !.dumpRequestBody = FALSE]

\* the client of a run
RunClient(r) == IF r = "logged" THEN client ELSE WithoutDiagnostics(client)

\* the options of the compared client: retrying on 500, and a dump logger
\* with and without the body
DumpOptions ==
    {Option("WithMaxRetries", 1, "nil", "nil", FALSE),
     Option("WithCheckRetryPolicy", 0, "retryIfInternalServerError", "nil",
            FALSE)}
    \cup {Option("WithRequestDumpLogger", 0, "nil", "requestDumpLogger", b) :
             b \in BOOLEAN}

\* the body readers of the compared request: bytes that read to their end,
\* or a reader that yields its bytes and then an error
BodyReaders ==
    {[left |-> b, fails |-> f] : b \in ReqBodies, f \in BOOLEAN}

\* httputil.DumpRequestOut(req, body) reads req.Body only when body is set:
\* it reads it to the end into memory and puts a copy in its place; when the
\* read fails it returns the error and leaves req.Body as far as it was read
DumpReadFails(c, st) ==
    c.requestDumpLogger # "nil" /\ c.dumpRequestBody /\ st.fails

\* the body reader of a request after dumpRequestOut(req, c.dumpRequestBody)
BodyAfterDump(c, st) ==
    IF DumpReadFails(c, st) THEN [st EXCEPT !.left = <<>>] ELSE st

\* faulty variant: the dump reads the body for the logger and puts nothing in
\* its place
RequestToDoDrained(c, st) ==
    IF c.requestDumpLogger # "nil" /\ c.dumpRequestBody
    THEN [st EXCEPT !.left = <<>>] ELSE st

\* the body reader of the request sendRequest hands to Do: the caller's own
\* request, after c.logRequestDump(req) had it
RequestToDo(c, st) == BodyAfterDump(c, st)

\* what an attempt ends with for a body reader: a reader that fails makes
\* the attempt fail while the request is written
OutcomeWith(st, o) ==
    IF st.fails THEN [resp |-> NilResp, err |-> ReadErr] ELSE o

\* one iteration of the retry loop of the run, ending with outcome o
RunAttempt(c, run, o) ==
    LET rc == c.retryableHttpClient
        out == OutcomeWith(run.stream, o)
        d == CheckRetry(rc.CheckRetry, out.resp, out.err,
                        Decision(FALSE, NilErr))
        n == run.attempts + 1
        after == [run EXCEPT
                     !.attempts = n,
                     !.sent = Append(@, run.stream.left),
                     !.stream = IF Drains(out) \/ run.stream.fails
                                THEN [@ EXCEPT !.left = <<>>] ELSE @]
    IN IF Retries(rc, run.attempts, d) THEN after
       ELSE IF Succeeded(out, d)
       THEN [after EXCEPT !.pc = "resolve",
                          !.doRet = [resp |-> out.resp, err |-> NilErr]]
       ELSE [after EXCEPT !.pc = "resolve",
                          !.doRet = [resp |-> NilResp,
                                     err |-> FinalErr(n, out, d)]]

InitDump ==
    /\ \E options \in OptionLists(DumpOptions) : client = New(options)
    /\ pc = "idle"
    /\ given = NoneGiven
    /\ Idle

\* the variables the paired runs leave alone
unpaired == <<client, mock, pc, call, target, attempts, streams, decisions,
              last, doRet, ret, dumps, decodes, reqStream, sent, waits, pd,
              given, rps, procs>>

\* both runs: c.sendRequest(req, v) up to the call of retryableHttpClient.Do
PairSendRequest ==
    /\ \A r \in Runs : runs[r].pc = "idle"
    /\ \E u \in Urls, st \in BodyReaders, hasTarget \in BOOLEAN,
          dumpFails \in BOOLEAN :
          LET req == Request(u, st.left, FALSE)
          IN runs' = [r \in Runs |->
                 [NoRun EXCEPT
                     !.pc = "do", !.req = req, !.hasTarget = hasTarget,
                     !.dumped = logRequestDump(RunClient(r), req,
                                    dumpFails \/ DumpReadFails(RunClient(r), st),
                                    <<>>),
                     !.stream = RequestToDo(RunClient(r), st)]]
    /\ UNCHANGED unpaired

\* both runs: one attempt each, the network deciding alike for both
PairAttempt ==
    /\ \A r \in Runs : runs[r].pc = "do"
    /\ \E o \in ConcOutcomes :
          runs' = [r \in Runs |-> RunAttempt(RunClient(r), runs[r], o)]
    /\ UNCHANGED unpaired

\* both runs: client.do after Do returned, and the return of sendRequest
PairResolve ==
    /\ \A r \in Runs : runs[r].pc = "resolve"
    /\ runs' = [r \in Runs |->
           LET p == runs[r]
               x == do(p.req.url, p.doRet.resp, p.doRet.err, p.hasTarget,
                       ZeroTarget, StreamOf(p.doRet))
           IN [p EXCEPT !.pc = "returned",
                        !.ret = [resp |-> x.resp, err |-> x.err],
                        !.data = x.data]]
    /\ UNCHANGED unpaired

NextDump ==
    \/ PairSendRequest
    \/ PairAttempt
    \/ PairResolve

SpecDump == InitDump /\ [][NextDump]_vars

\* ------------------------------------------------------------------------
\* Type invariant
\* ------------------------------------------------------------------------
TypeOK ==
    /\ pc \in {"new", "rpsNew", "idle", "do", "resolve", "returned",
              "pdReturned", "panicked"}
    /\ attempts \in 0..(MaxRetriesBound + 1)
    /\ Len(streams) = attempts
    /\ Len(sent) = attempts
    /\ mock = <<>> => Len(decisions) = attempts
    /\ decodes \in 0..1

\* ------------------------------------------------------------------------
\* Vocabulary of the properties
\* ------------------------------------------------------------------------
\* sendRequest has returned to its caller
SendReturned ==
    \/ pc = "returned"
    \/ pc \in {"pdReturned", "panicked"} /\ call.op = "ParseDocument"

\* the retry loop of the call is over
LoopOver == pc # "do" /\ attempts >= 1

\* the library's retry loop is in use (no mock took its place)
Wrapped == mock = <<>>

\* the error of the last attempt that the loop reports: the predicate's own
\* error when it returned one, the transport's otherwise
Underlying == IF ~IsNil(last.checkErr) THEN last.checkErr ELSE last.err

\* the state of the body stream of the response Do returned
FinalStream == streams[Len(streams)]

\* ------------------------------------------------------------------------
\* Properties
\* ------------------------------------------------------------------------
\* C1: with the default retry predicate (none configured), whatever
\* max_retries is, a send makes one attempt and no second one; when that
\* attempt ended with a status >= 400 the returned error carries that status,
\* and when it ended with a transport error the returned error has no status
\* and that transport error at the root of its cause.
C1_DefaultPolicyOneAttempt ==
    (Wrapped /\ client.checkRetryPolicy = "nil") =>
        /\ attempts <= 1
        /\ (SendReturned /\ last.resp # NilResp
                /\ last.resp[1].status >= StatusBadRequest) =>
              /\ ret.err # NoError
              /\ ret.err[1].StatusCode = last.resp[1].status
        /\ (SendReturned /\ ~IsNil(last.err)) =>
              /\ ret.err # NoError
              /\ ret.err[1].StatusCode = NoStatus
              /\ Root(ret.err[1].Err) = Root(last.err)

\* C1 witness: retries were available, the one attempt was answered with a
\* status >= 500, and the call returned its error
C1_Witness ==
    /\ Wrapped /\ client.checkRetryPolicy = "nil"
    /\ client.maxRetries = MaxRetriesBound
    /\ pc = "returned" /\ attempts = 1
    /\ last.resp # NilResp /\ last.resp[1].status = StatusBadGateway
    /\ ret.err # NoError

\* C2: with a configured predicate, the loop stops right after the first
\* attempt at which the predicate says "do not retry", whatever the status
\* and however many retries remain, and it does not stop earlier: every
\* earlier attempt said "retry", and a loop that ended on a "retry" had used
\* up max_retries + 1 attempts.
C2_StopsAtFirstNoRetry ==
    (Wrapped /\ client.checkRetryPolicy # "nil") =>
        /\ Len(decisions) = attempts
        /\ \A i \in 1..(Len(decisions) - 1) : decisions[i]
        /\ (attempts >= 1 /\ ~decisions[attempts]) => pc # "do"
        /\ (LoopOver /\ decisions[attempts]) =>
              attempts = client.maxRetries + 1

\* C2 witness: the predicate said "retry" once and then "do not retry" on a
\* 500 while a retry was still available
C2_Witness ==
    /\ Wrapped /\ client.checkRetryPolicy = "custom"
    /\ client.maxRetries = MaxRetriesBound
    /\ pc = "returned" /\ attempts = 2
    /\ decisions = <<TRUE, FALSE>>
    /\ last.resp # NilResp /\ last.resp[1].status = StatusInternalServerError

\* C3: when the predicate said "retry" after every attempt, the loop made
\* max_retries + 1 attempts and Do returned no response and a "giving up
\* after N attempt(s)" error with N = max_retries + 1 around the last
\* underlying error (around nothing when there was none); send then returns
\* the structured error with no status, an empty body and that error as
\* cause.
C3_GivingUpAfterExhaustion ==
    (Wrapped /\ LoopOver /\ \A i \in 1..Len(decisions) : decisions[i]) =>
        /\ attempts = client.maxRetries + 1
        /\ doRet.resp = NilResp
        /\ doRet.err = GivingUp(client.maxRetries + 1, Underlying)
        /\ SendReturned =>
              ret.err = <<HttpError(call.req.url, NoStatus, <<>>, doRet.err)>>

\* C3 witness: max_retries + 1 attempts all answered "retry", the last one
\* failed with EOF, and the call returned
C3_Witness ==
    /\ Wrapped /\ client.maxRetries = 1 /\ attempts = 2
    /\ decisions = <<TRUE, TRUE>>
    /\ pc = "returned"
    /\ last.err = NewErr("EOF")
    /\ ret.err # NoError /\ ret.err[1].Err.attempts = 2

\* C4: one send makes at least one and at most max_retries + 1 attempts,
\* whatever the predicate and the attempts' outcomes, and then returns; with
\* max_retries = 0 it makes exactly one attempt even when the predicate says
\* "retry".  Termination: every attempt counts, the loop asks for a further
\* attempt only while fewer than max_retries + 1 were made, and a call in
\* flight can always take its next step.
C4_AttemptsBoundedAndTerminates ==
    Wrapped =>
        /\ attempts <= client.maxRetries + 1
        /\ SendReturned => attempts >= 1
        /\ (SendReturned /\ client.maxRetries = 0) => attempts = 1
        /\ pc = "do" => attempts <= client.maxRetries
        /\ pc \in {"do", "resolve"} => ENABLED (Attempt \/ Resolve)

\* C4 witness: max_retries = 0, the predicate said "retry", and the call
\* returned after its single attempt
C4_Witness ==
    /\ Wrapped /\ client.maxRetries = 0
    /\ pc = "returned" /\ attempts = 1
    /\ decisions = <<TRUE>>

\* the response Do returned has this status range and came without an error
FinalStatusBelow400 ==
    /\ doRet.resp # NilResp
    /\ doRet.resp[1].status < StatusBadRequest
    /\ IsNil(doRet.err)

\* what a direct decode of the final response's body into the caller's
\* target, as it was when the call was made, yields
DirectDecode ==
    IF doRet.resp[1].readFails THEN [err |-> ReadErr, data |-> call.v0]
    ELSE Decode(doRet.resp[1].body, call.v0)

\* C5: for a final response with status >= 400, when its body is readable
\* the returned error carries the status, the exact bytes of the body and,
\* as cause, the error received with the response (nil if none); when
\* reading the body fails, the body field is empty and the cause is the read
\* failure wrapped as "parsing response", the received error being dropped.
C5_UnsuccessfulResponseError ==
    (SendReturned /\ doRet.resp # NilResp
        /\ doRet.resp[1].status >= StatusBadRequest) =>
        IF ~doRet.resp[1].readFails
        THEN ret.err = <<HttpError(call.req.url, doRet.resp[1].status,
                                   doRet.resp[1].body, doRet.err)>>
        ELSE ret.err = <<HttpError(call.req.url, doRet.resp[1].status, <<>>,
                                   Wrap(ReadErr, "parsing response"))>>

\* C5 witness: a 500 with a readable, non-empty body came together with an
\* error, and the call returned
C5_Witness ==
    /\ pc = "returned"
    /\ doRet.resp # NilResp
    /\ doRet.resp[1].status = StatusInternalServerError
    /\ doRet.resp[1].body = ErrorBody /\ ~doRet.resp[1].readFails
    /\ ~IsNil(doRet.err)

\* C6: when Do returned no response and an error, send returns the
\* structured error with no status, an empty body and exactly that error as
\* cause, and no response.
C6_NoResponseError ==
    (SendReturned /\ doRet.resp = NilResp /\ ~IsNil(doRet.err)) =>
        /\ ret.err = <<HttpError(call.req.url, NoStatus, <<>>, doRet.err)>>
        /\ ret.resp = NilResp

\* C6 witness: a call returned after Do came back with no response and an
\* error
C6_Witness ==
    /\ pc = "returned"
    /\ doRet.resp = NilResp /\ doRet.err = NewErr("random error")
    /\ ret.err # NoError

\* the call is over for the operation that was invoked
CallOver ==
    \/ pc = "returned" /\ call.op # "ParseDocument"
    \/ pc = "pdReturned" /\ call.op = "ParseDocument"

\* the open body of the returned response now belongs to the caller
HandedToCaller == ~call.hasTarget /\ ret.err = NoError

\* C7: the body stream of every attempt's response is closed exactly once:
\* never closed twice, and closed once the core is done with it, that is
\* when a further attempt was made or the call is over without the body
\* having been handed to the caller.
C7_BodyClosedExactlyOnce ==
    \A i \in 1..Len(streams) :
        streams[i].present =>
            /\ streams[i].closes <= 1
            /\ (i < Len(streams) \/ (CallOver /\ ~HandedToCaller)) =>
                  streams[i].closes = 1

\* C8: for a final response with status < 400 and no error, a supplied
\* target and a body that is well-formed JSON, the target ends equal to a
\* direct decode of that body, and the response is returned with a nil
\* error; the body {"key":"value"} gives Key = "value".
C8_DecodesLikeDirectDecode ==
    (SendReturned /\ call.hasTarget /\ FinalStatusBelow400
        /\ IsNil(DirectDecode.err)) =>
        /\ target = DirectDecode.data
        /\ ret.err = NoError
        /\ ret.resp = doRet.resp
        /\ doRet.resp[1].body = KeyValueBody => target = [Key |-> "value"]

\* C8 witness: a 200 with the body {"key":"value"} was decoded into a target
\* that held another value before
C8_Witness ==
    /\ pc = "returned"
    /\ call.op = "SendRequestAndUnmarshallJsonResponse"
    /\ call.v0 = [Key |-> "old"]
    /\ FinalStatusBelow400 /\ doRet.resp[1].status = StatusOK
    /\ doRet.resp[1].body = KeyValueBody /\ ~doRet.resp[1].readFails
    /\ target = [Key |-> "value"]

\* C9: when decoding the body of a final response with status < 400 into
\* the supplied target fails, the returned error carries the response's
\* status, an empty body and the decode failure wrapped as "decoding
\* response", and the body was closed by the time send returns.
C9_DecodeFailureError ==
    (SendReturned /\ call.hasTarget /\ FinalStatusBelow400
        /\ ~IsNil(DirectDecode.err)) =>
        /\ ret.err = <<HttpError(call.req.url, doRet.resp[1].status, <<>>,
                                 Wrap(DirectDecode.err, "decoding response"))>>
        /\ FinalStream.closes = 1

\* C9 witness: a 200 whose body is not JSON was returned to a call with a
\* target
C9_Witness ==
    /\ pc = "returned"
    /\ call.hasTarget
    /\ FinalStatusBelow400 /\ doRet.resp[1].status = StatusOK
    /\ doRet.resp[1].body = GarbageBody
    /\ ret.err # NoError

\* C10: without a decode target, a final response with status < 400 and no
\* error is returned with its body neither read nor closed, and this is the
\* only case in which send returns a response whose body is still open.
C10_OpenBodyOnlyWithoutTarget ==
    /\ (SendReturned /\ ~call.hasTarget /\ FinalStatusBelow400) =>
          /\ ret.resp = doRet.resp
          /\ ret.err = NoError
          /\ FinalStream = OpenStream
    /\ (SendReturned /\ ret.resp # NilResp /\ FinalStream.closes = 0) =>
          /\ ~call.hasTarget
          /\ ret.resp[1].status < StatusBadRequest
          /\ ret.err = NoError

\* the fields of an HttpError value
HttpErrorFields == {"Url", "StatusCode", "Body", "Err"}

\* the four kinds of failure of a call, read off what Do returned
UnsuccessfulStatus ==
    doRet.resp # NilResp /\ doRet.resp[1].status >= StatusBadRequest
BodyReadFailure == doRet.resp # NilResp /\ doRet.resp[1].readFails
DecodeFailure ==
    call.hasTarget /\ FinalStatusBelow400 /\ ~IsNil(DirectDecode.err)
TransportFailure == ~IsNil(doRet.err)

\* C11: every error send / send-and-decode returns is one HttpError value
\* for the request's URL; each of the four kinds of failure (status >= 400,
\* body-read failure, decode failure, transport or giving-up failure) ends
\* in such an error, and the transport or codec error itself is only found
\* inside it, as (the root of) its cause.
C11_EveryErrorIsHttpError ==
    SendReturned =>
        /\ (UnsuccessfulStatus \/ DecodeFailure \/ TransportFailure) =>
              ret.err # NoError
        /\ ret.err # NoError =>
              /\ Len(ret.err) = 1
              /\ DOMAIN ret.err[1] = HttpErrorFields
              /\ ret.err[1].Url = call.req.url
              /\ (TransportFailure /\ ~BodyReadFailure) =>
                    ret.err[1].Err = doRet.err
              /\ DecodeFailure =>
                    ret.err[1].Err = Wrap(DirectDecode.err, "decoding response")
              /\ (UnsuccessfulStatus /\ BodyReadFailure) =>
                    ret.err[1].Err = Wrap(ReadErr, "parsing response")

\* C11 witness: the only attempt of a default client ended with EOF, and the
\* call returned the giving-up error inside an HttpError
C11_Witness ==
    /\ Wrapped /\ client.checkRetryPolicy = "nil"
    /\ pc = "returned" /\ call.op = "SendRequest"
    /\ last.err = NewErr("EOF")
    /\ ret.err # NoError
    /\ DOMAIN ret.err[1] = HttpErrorFields
    /\ ret.err[1].Err = GivingUp(1, NewErr("EOF"))

\* the message 'request to <url> failed. httpStatus: [ <code> ]
\* responseBody: [ <body> ] error: [ <cause> ]', piece by piece
Rendering(url, code, body, cause) ==
    <<"request to ", url, " failed. httpStatus: [ ", code,
      " ] responseBody: [ ">> \o body \o <<" ] error: [ ">> \o cause \o <<" ]">>

\* a status was recorded in the error: the response's status was >= 400, or
\* its decoding failed
StatusRecorded == UnsuccessfulStatus \/ DecodeFailure

\* C12: the error a call returns renders as 'request to <url> failed.
\* httpStatus: [ <code> ] responseBody: [ <body> ] error: [ <cause> ]', with
\* <code> the response's status, or 'no status' when none was recorded,
\* <body> the bytes recorded as body and <cause> the cause's message, or
\* '<nil>' when there is no cause; a 502 with an empty body sent to a client
\* built without options renders 'httpStatus: [ 502 ] responseBody: [  ]
\* error: [ <nil> ]'.
C12_ErrorRendering ==
    (SendReturned /\ ret.err # NoError) =>
        /\ Error(ret.err[1]) =
              Rendering(call.req.url,
                        IF StatusRecorded THEN ToString(doRet.resp[1].status)
                        ELSE "no status",
                        ret.err[1].Body,
                        IF IsNil(ret.err[1].Err) THEN <<"<nil>">>
                        ELSE CauseText(ret.err[1].Err))
        /\ (Wrapped /\ client.checkRetryPolicy = "nil"
               /\ last.resp = <<[status |-> StatusBadGateway,
                                 body |-> EmptyBody, readFails |-> FALSE]>>) =>
              Error(ret.err[1]) =
                  <<"request to ", call.req.url, " failed. httpStatus: [ ",
                    "502", " ] responseBody: [ ", " ] error: [ ", "<nil>",
                    " ]">>

\* C12 witness: a client built without options got a 502 with an empty body
\* and returned the error whose message shows 502, no body and no cause
C12_Witness ==
    /\ client = New(<<>>) /\ Wrapped
    /\ pc = "returned"
    /\ last.resp = <<[status |-> StatusBadGateway, body |-> EmptyBody,
                      readFails |-> FALSE]>>
    /\ ret.err # NoError
    /\ Error(ret.err[1])[4] = "502"
    /\ Error(ret.err[1])[7] = "<nil>"

\* the bytes `body` occur in `dump`, in order and without a gap
Contains(dump, body) ==
    \E k \in 1..(Len(dump) - Len(body) + 1) :
        SubSeq(dump, k, k + Len(body) - 1) = body

\* C13: a dump is handed over only to a configured logger; with dump_body
\* off it is the request line and headers alone and never contains the
\* request's body, even when that body is not empty; with dump_body on and a
\* non-empty body it is the headers followed by the body verbatim.
C13_DumpBodyOnlyWhenEnabled ==
    \A i \in 1..Len(dumps) :
        /\ client.requestDumpLogger # "nil"
        /\ ~client.dumpRequestBody =>
              /\ dumps[i] = <<"headers">>
              /\ call.req.body # <<>> => ~Contains(dumps[i], call.req.body)
        /\ (client.dumpRequestBody /\ call.req.body # <<>>) =>
              /\ Contains(dumps[i], call.req.body)
              /\ dumps[i] = <<"headers">> \o call.req.body

\* C13 witness: a request with a payload was dumped by a client whose
\* dump_body is off
C13_Witness ==
    /\ client.requestDumpLogger # "nil" /\ ~client.dumpRequestBody
    /\ call.req.body = <<"payload">>
    /\ dumps = <<(<<"headers">>)>>
    /\ pc = "returned"

\* what client.do makes of what Do returned, for the call's arguments
Resolution ==
    do(call.req.url, doRet.resp, doRet.err, call.hasTarget, call.v0,
       IF doRet.resp # NilResp THEN OpenStream ELSE NoStream)

CallStarted == call.op # "none"

\* C15: with a dump logger configured (and the request serializable), the
\* dump of the call's request is in the logger's hands before the first
\* attempt is dispatched, and the logger is never invoked more often than
\* attempts are made: it is invoked once per call, retried attempts are not
\* dumped again.
C15_DumpBeforeAttemptAtMostOnce ==
    /\ (CallStarted /\ client.requestDumpLogger # "nil" /\ ~call.dumpErr) =>
          /\ Len(dumps) = 1
          /\ dumps[1] = dumpRequestOut(call.req, client.dumpRequestBody,
                                       FALSE).dump
    /\ attempts = 0 => Len(dumps) <= 1
    /\ attempts >= 1 => Len(dumps) <= attempts
    /\ ~CallStarted => (dumps = <<>> /\ attempts = 0)

\* C15 witness: the request was dumped and no attempt has been dispatched
\* yet
C15_Witness ==
    /\ client.requestDumpLogger # "nil"
    /\ pc = "do" /\ attempts = 0
    /\ Len(dumps) = 1

\* C16: an attempt after the first is never dispatched with a request body
\* that earlier attempts consumed: either it has the whole body again, or
\* it fails fast, without a response, and is not retried, so that it is the
\* last attempt of the call.
C16_ConsumedBodyNeverResent ==
    Wrapped =>
        \A k \in 2..Len(sent) :
            sent[k] # call.req.body =>
                /\ ~streams[k].present
                /\ k = attempts
                /\ pc # "do"

\* C17: every wait between two consecutive attempts of a call lasts at
\* least retry_wait_min and at most retry_wait_max, whatever the two bounds
\* and the attempt number; there is one wait per retry.
C17_WaitsWithinBounds ==
    /\ (Wrapped /\ LoopOver) => Len(waits) = attempts - 1
    /\ \A i \in 1..Len(waits) :
          /\ client.retryWaitMin <= waits[i]
          /\ waits[i] <= client.retryWaitMax

\* the options that take one number, and the field each writes
NumberOptions ==
    {"WithMaxIdleConns", "WithMaxIdleConnsPerHost", "WithMaxConnsPerHost",
     "WithMaxRetries", "WithRetryWaitMin", "WithRetryWaitMax"}

Field(k) ==
    CASE k = "WithMaxIdleConns" -> "maxIdleConns"
      [] k = "WithMaxIdleConnsPerHost" -> "maxIdleConnsPerHost"
      [] k = "WithMaxConnsPerHost" -> "maxConnsPerHost"
      [] k = "WithMaxRetries" -> "maxRetries"
      [] k = "WithRetryWaitMin" -> "retryWaitMin"
      [] k = "WithRetryWaitMax" -> "retryWaitMax"
      [] k = "WithCheckRetryPolicy" -> "checkRetryPolicy"
      [] k = "WithRequestDumpLogger" -> "requestDumpLogger"

\* construction is over
Constructed == pc = "idle"

\* C18: a constructed client holds, in each field, the value last supplied
\* by the corresponding option, and the zero value (0, no predicate, no
\* logger, dump_body off) where no option supplied one; its executor is
\* set up from these fields, with the never-retry predicate when no
\* predicate was supplied.  So a client built without options has zero
\* values throughout and never retries, and one built with all options
\* holds exactly what was supplied.
C18_ConstructedClientFields ==
    Constructed =>
        /\ \A k \in NumberOptions :
              client[Field(k)] = IF given[k] = <<>> THEN 0 ELSE given[k][1].n
        /\ client.checkRetryPolicy =
              IF given["WithCheckRetryPolicy"] = <<>> THEN "nil"
              ELSE given["WithCheckRetryPolicy"][1].p
        /\ client.requestDumpLogger =
              IF given["WithRequestDumpLogger"] = <<>> THEN "nil"
              ELSE given["WithRequestDumpLogger"][1].l
        /\ client.dumpRequestBody =
              IF given["WithRequestDumpLogger"] = <<>> THEN FALSE
              ELSE given["WithRequestDumpLogger"][1].b
        /\ client.retryableHttpClient =
              [RetryMax |-> client.maxRetries,
               RetryWaitMin |-> client.retryWaitMin,
               RetryWaitMax |-> client.retryWaitMax,
               CheckRetry |-> IF client.checkRetryPolicy = "nil"
                              THEN "doNotRetryPolicy"
                              ELSE client.checkRetryPolicy]
        /\ given = NoneGiven =>
              /\ client.maxRetries = 0
              /\ client.retryableHttpClient.CheckRetry = "doNotRetryPolicy"

\* C18 witness: New was given every option with a value that is not the
\* zero value, as in TestNew, and has returned
C18_Witness ==
    /\ Constructed /\ rps = ZeroRps
    /\ \A k \in OptionNames : given[k] # <<>>
    /\ \A k \in NumberOptions : client[Field(k)] >= 1
    /\ client.checkRetryPolicy = "custom"
    /\ client.requestDumpLogger = "requestDumpLogger"
    /\ client.dumpRequestBody
    /\ client.retryableHttpClient.CheckRetry = "custom"

\* the fields in which two configurations differ
Changed(c, d) == {f \in DOMAIN c : c[f] # d[f]}

\* the step applies option o to the client under construction
Applies(o) == pc = "new" /\ pc' = "new" /\ client' = ApplyOption(o, client)
RpsApplies(o) ==
    pc = "rpsNew" /\ pc' = "rpsNew" /\ rps' = rpsApplyOption(o, rps)

\* the fields option o is for
OwnFields(o) ==
    IF o.name = "WithRequestDumpLogger"
    THEN {"requestDumpLogger", "dumpRequestBody"}
    ELSE {Field(o.name)}

\* the value option o supplies for its field f
Supplied(o, f) ==
    CASE f = "checkRetryPolicy" -> o.p
      [] f = "requestDumpLogger" -> o.l
      [] f = "dumpRequestBody" -> o.b
      [] OTHER -> o.n

\* C19 as stated: applying an option changes one field of the configuration
\* and leaves every other field as it was, in package httpclient and in
\* package rps.
C19_OptionChangesOneField ==
    [][/\ (pc = "new" /\ pc' = "new") =>
             Cardinality(Changed(client, client')) <= 1
       /\ (pc = "rpsNew" /\ pc' = "rpsNew") =>
             Cardinality(Changed(rps, rps')) <= 1]_vars

\* C19 amended: applying an option writes the fields that option is for,
\* with the values it was given, and leaves every other field as it was;
\* each option is for one field, except WithRequestDumpLogger, which is for
\* the dump logger and dump_body together.
C19_OptionWritesOwnFields ==
    [][\A o \in AllOptions :
          /\ Applies(o) =>
                /\ Changed(client, client') \subseteq OwnFields(o)
                /\ \A f \in OwnFields(o) : client'[f] = Supplied(o, f)
          /\ RpsApplies(o) =>
                /\ Changed(rps, rps') \subseteq OwnFields(o)
                /\ \A f \in OwnFields(o) : rps'[f] = Supplied(o, f)]_vars

\* C19 witness: WithRequestDumpLogger was applied to a client under
\* construction and both of its fields hold what it supplied
C19_Witness ==
    /\ pc = "new"
    /\ given["WithRequestDumpLogger"] # <<>>
    /\ client.requestDumpLogger = "requestDumpLogger"
    /\ client.dumpRequestBody
    /\ client.maxConnsPerHost = MaxConns /\ client.maxIdleConnsPerHost = 0

\* the retry loop, run with rc on the attempts of hist alone, goes on after
\* every attempt but the last of hist, and decides each by rc's predicate
OwnAttempts(rc, hist, over) ==
    \A k \in 1..Len(hist) :
        /\ hist[k].d = CheckRetry(rc.CheckRetry, hist[k].o.resp, hist[k].o.err,
                                  Decision(FALSE, NilErr))
        /\ Retries(rc, k - 1, hist[k].d) <=> ~(over /\ k = Len(hist))

\* what Do returns after the attempts of hist
OwnDoRet(hist) ==
    LET n == Len(hist)
    IN IF Succeeded(hist[n].o, hist[n].d)
       THEN [resp |-> hist[n].o.resp, err |-> NilErr]
       ELSE [resp |-> NilResp, err |-> FinalErr(n, hist[n].o, hist[n].d)]

\* the state of caller p is the one its own request and its own attempts
\* give with configuration c
OwnResult(p, c) ==
    /\ p.pc = "idle" => p = NoProc
    /\ p.pc = "do" => OwnAttempts(c.retryableHttpClient, p.hist, FALSE)
    /\ p.pc \in {"resolve", "returned"} =>
          /\ Len(p.hist) >= 1
          /\ OwnAttempts(c.retryableHttpClient, p.hist, TRUE)
          /\ p.doRet = OwnDoRet(p.hist)
    /\ p.pc = "returned" =>
          LET r == do(p.req.url, p.doRet.resp, p.doRet.err, p.hasTarget,
                      ZeroTarget, StreamOf(p.doRet))
          IN p.ret = [resp |-> r.resp, err |-> r.err] /\ p.data = r.data

\* C20: no step of a send call, whichever caller takes it and whatever the
\* other callers are doing, changes a field of the shared client; and after
\* every step each caller's attempts, the result of its Do and what its
\* sendRequest returned are those its own request and its own attempts'
\* outcomes give with that unchanged configuration.
C20_ConfigReadOnlyCallsIndependent ==
    [][/\ client' = client
       /\ \A i \in Calls : OwnResult(procs'[i], client)]_vars

\* one caller is between two attempts, after a 500 it will retry, while the
\* other has a result (success for one, an error for another), and both
\* requests were dumped through the shared logger
C20_Witness ==
    /\ client.maxRetries = 1
    /\ client.checkRetryPolicy = "retryIfInternalServerError"
    /\ Len(dumps) = NumCalls
    /\ procs[1].pc = "do" /\ Len(procs[1].hist) = 1
    /\ procs[2].pc = "returned" /\ Len(procs[2].hist) = 2
    /\ procs[2].ret.err # NoError
    /\ procs[2].req # procs[1].req

\* the transport field a connection option is meant for
TransportField(k) ==
    CASE k = "WithMaxIdleConns" -> "MaxIdleConns"
      [] k = "WithMaxIdleConnsPerHost" -> "MaxIdleConnsPerHost"
      [] k = "WithMaxConnsPerHost" -> "MaxConnsPerHost"

ConnOptions ==
    {"WithMaxIdleConns", "WithMaxIdleConnsPerHost", "WithMaxConnsPerHost"}

\* C21: once the client is constructed, the transport its requests go
\* through carries every connection limit an option supplied: the maximum
\* of idle connections, of idle connections per host and of connections
\* per host.
C21_TransportCarriesLimits ==
    Constructed =>
        \A k \in ConnOptions :
            given[k] # <<>> =>
                TransportOf(client)[TransportField(k)] = given[k][1].n

\* ParseDocument has returned to its caller
ParseDocumentReturned == pc = "pdReturned"

\* what ParseDocument returned is an error
ParseDocumentFailed == pd.msg # ""

\* no request was created: nothing was dumped, handed to Do or sent
NothingSent ==
    call = NoCall /\ dumps = <<>> /\ attempts = 0 /\ sent = <<>> /\ decodes = 0

\* C22: ParseDocument marshals, creates the request, sends, and returns at
\* the first step that fails.  Its error is 'marshalling parse document
\* request: <err>' with no request created or sent, or 'creating request:
\* <err>' with nothing sent, or 'performing request: <err>' wrapping what
\* the send returned.  With an error the resume returned is nil; without
\* one it is the resume the response was decoded into, the send having
\* returned a nil error.
C22_ParseDocumentSteps ==
    ParseDocumentReturned =>
        /\ pd.msg \in {"", "marshalling parse document request",
                       "creating request", "performing request"}
        /\ pd.msg \in {"marshalling parse document request",
                       "creating request"} =>
              /\ NothingSent
              /\ ~IsNil(pd.plain) /\ pd.cause = NoError
        /\ pd.msg = "performing request" =>
              /\ call.op = "ParseDocument" /\ attempts >= 1
              /\ ret.err # NoError /\ pd.cause = ret.err /\ IsNil(pd.plain)
        /\ ParseDocumentFailed => pd.resume = <<>>
        /\ ~ParseDocumentFailed =>
              /\ call.op = "ParseDocument" /\ ret.err = NoError
              /\ IsNil(pd.plain) /\ pd.cause = NoError
              /\ decodes = 1
              /\ pd.resume = <<target>>
              /\ ret.resp # NilResp
              /\ ret.resp[1].body = KeyValueBody => target = [Key |-> "value"]

\* ParseDocument returned a send failure after the retry loop gave up on
\* its second attempt
C22_Witness ==
    /\ ParseDocumentReturned
    /\ pd.msg = "performing request"
    /\ pd.resume = <<>>
    /\ attempts = 2
    /\ ret.resp = NilResp

\* C23: whenever SendRequest or SendRequestAndUnmarshallJsonResponse has
\* returned a nil error, the response it returned is not nil, whatever Do
\* handed to client.do: a response, an error, both or neither.
C23_NilErrorMeansResponse ==
    (SendReturned /\ ret.err = NoError) => ret.resp # NilResp

\* C24: the HttpError a call returns has no status (the zero StatusCode)
\* exactly when Do handed no response to client.do; when it handed one,
\* whatever its status and whether or not an error came with it, StatusCode
\* is that response's status.
C24_StatusAbsentIffNoResponse ==
    (SendReturned /\ ret.err # NoError) =>
        /\ ret.err[1].StatusCode = NoStatus <=> doRet.resp = NilResp
        /\ doRet.resp # NilResp =>
              ret.err[1].StatusCode = doRet.resp[1].status

\* C25: a call returns an error exactly when Do returned a response with
\* status >= 400, or returned an error, or the body of the response could
\* not be decoded into the target the caller supplied.  The threshold is
\* exact: a 400 is an error, and a response with a status below 400, 399
\* included, that came without an error and (with a target) decodes, is
\* returned without one.
C25_ErrorExactlyWhen ==
    SendReturned =>
        /\ ret.err # NoError <=>
              UnsuccessfulStatus \/ TransportFailure \/ DecodeFailure
        /\ (doRet.resp # NilResp /\ doRet.resp[1].status = StatusBadRequest) =>
              ret.err # NoError
        /\ (doRet.resp # NilResp /\ doRet.resp[1].status = StatusBadRequest - 1
            /\ IsNil(doRet.err) /\ ~call.hasTarget) =>
              ret.err = NoError /\ ret.resp = doRet.resp

\* a 400 was returned as an error by a call that had a readable body to
\* report
C25_Witness ==
    /\ pc = "returned"
    /\ doRet.resp # NilResp /\ doRet.resp[1].status = StatusBadRequest
    /\ IsNil(doRet.err)
    /\ ret.err # NoError /\ ret.err[1].StatusCode = StatusBadRequest

\* C26: when Do returned a response with status >= 400, or an error, a call
\* that supplied a decode target returns without having invoked jsonDecode
\* and with the target as the caller passed it.
C26_NoDecodeOnFailure ==
    (SendReturned /\ call.hasTarget
        /\ (UnsuccessfulStatus \/ TransportFailure)) =>
        /\ decodes = 0
        /\ target = call.v0

\* a 500 whose body is valid JSON came back to a call whose target held a
\* value, and the target still holds it
C26_Witness ==
    /\ pc = "returned"
    /\ call.op = "SendRequestAndUnmarshallJsonResponse"
    /\ call.v0 = [Key |-> "old"]
    /\ doRet.resp # NilResp
    /\ doRet.resp[1].status = StatusInternalServerError
    /\ doRet.resp[1].body = KeyValueBody /\ ~doRet.resp[1].readFails
    /\ target = [Key |-> "old"]

\* C27: whatever options New or NewResumeParsingServiceClient was given,
\* WithCheckRetryPolicy(nil) included, the predicate installed on the
\* wrapped client once construction is over is not nil: it is the
\* configured predicate when one was configured, and doNotRetryPolicy
\* otherwise.
C27_InstalledPredicateNeverNil ==
    Constructed =>
        /\ client.retryableHttpClient.CheckRetry # "nil"
        /\ client.checkRetryPolicy # "nil" =>
              client.retryableHttpClient.CheckRetry = client.checkRetryPolicy
        /\ client.checkRetryPolicy = "nil" =>
              client.retryableHttpClient.CheckRetry = "doNotRetryPolicy"
        /\ (given["WithCheckRetryPolicy"] # <<>>
            /\ given["WithCheckRetryPolicy"][1].p = "nil") =>
              client.retryableHttpClient.CheckRetry = "doNotRetryPolicy"

\* NewResumeParsingServiceClient, given no predicate, passed
\* WithCheckRetryPolicy(nil) on, and the client it built never retries
C27_Witness ==
    /\ Constructed
    /\ rps.httpClient = <<client>>
    /\ rps.checkRetryPolicy = "nil"
    /\ given["WithCheckRetryPolicy"] # <<>>
    /\ given["WithCheckRetryPolicy"][1].p = "nil"
    /\ client.retryableHttpClient.CheckRetry = "doNotRetryPolicy"

\* the configuration fields the two clients have in common
SharedFields ==
    {"maxIdleConns", "maxIdleConnsPerHost", "maxConnsPerHost", "maxRetries",
     "retryWaitMin", "retryWaitMax", "checkRetryPolicy", "requestDumpLogger",
     "dumpRequestBody"}

\* NewResumeParsingServiceClient has returned
RpsConstructed == Constructed /\ rps.httpClient # <<>>

\* C28: whatever options NewResumeParsingServiceClient was given, the HTTP
\* client it holds has, in max retries, both waits, the three connection
\* limits, the retry predicate, the dump logger and dump_body, the values
\* of the resume-parsing client's own fields, and its wrapped client
\* retries and waits by them.
C28_LayersConfiguredAlike ==
    RpsConstructed =>
        /\ rps.httpClient = <<client>>
        /\ \A f \in SharedFields : rps.httpClient[1][f] = rps[f]
        /\ rps.httpClient[1].retryableHttpClient.RetryMax = rps.maxRetries
        /\ rps.httpClient[1].retryableHttpClient.RetryWaitMin = rps.retryWaitMin
        /\ rps.httpClient[1].retryableHttpClient.RetryWaitMax = rps.retryWaitMax
        /\ rps.httpClient[1].retryableHttpClient.CheckRetry =
              IF rps.checkRetryPolicy = "nil" THEN "doNotRetryPolicy"
              ELSE rps.checkRetryPolicy

\* NewResumeParsingServiceClient was given every option, with waits that
\* differ, and has returned
C28_Witness ==
    /\ RpsConstructed
    /\ rps.rioParseToken # ""
    /\ rps.maxIdleConns = MaxConns /\ rps.maxIdleConnsPerHost = MaxConns
    /\ rps.maxConnsPerHost = MaxConns
    /\ rps.maxRetries = MaxRetriesBound
    /\ rps.retryWaitMin = 1 /\ rps.retryWaitMax = MaxWait
    /\ rps.checkRetryPolicy = "custom"
    /\ rps.requestDumpLogger = "requestDumpLogger" /\ rps.dumpRequestBody

\* C29: from the moment sendRequest was entered to the return of the call,
\* however many attempts the retry loop makes, the logger has been invoked
\* once if a logger is configured and dumpRequestOut returned no error, and
\* not at all otherwise.
C29_DumpedOncePerCall ==
    CallStarted =>
        Len(dumps) = IF client.requestDumpLogger # "nil" /\ ~call.dumpErr
                     THEN 1 ELSE 0

\* a call that was retried as often as the client allows has returned, and
\* the logger has the one dump
C29_Witness ==
    /\ pc = "returned"
    /\ client.requestDumpLogger # "nil" /\ ~client.dumpRequestBody
    /\ attempts = MaxRetriesBound + 1
    /\ Len(dumps) = 1

====
